---- MODULE Spec2Model ----
(***************************************************************************)
(* Model of the incremental fetch-and-merge engine of                      *)
(* telegram_chats_parser: src/app_src/get_messages_from_chats.py.          *)
(*                                                                         *)
(* One chat is followed through the orchestrator's pipeline                *)
(* (process_chat_file -> MessageParser.parse_messages -> save_messages).   *)
(* Time is a small range of absolute instants; the archive stores the      *)
(* Moscow civil time string of each message, modelled as a local-time      *)
(* number.  The Europe/Moscow zone went from UTC+4 to UTC+3 on 26-10-2014, *)
(* so one span of local times occurs twice: format_moscow_time and         *)
(* parse_moscow_time are modelled with that fold, not as inverse maps.     *)
(*                                                                         *)
(* Specifications: Spec (one chat, run after run), SpecSave (save_messages *)
(* on its own), SpecBatch (process_chat_file over the references of one    *)
(* category file), SpecMerge (src/app_src/merge_json.py), SpecFirst        *)
(* (get_first_message_date on an archive save_messages wrote),             *)
(* SpecThrottle (the request counter of the shared MessageParser) and      *)
(* SpecLive (one fetch under fairness).                                    *)
(*                                                                         *)
(* Left out: the random delay of each turn, and outside SpecThrottle the   *)
(* soft request throttle (they change no record), messages without a date  *)
(* and exceptions raised while one message is processed (the source of the *)
(* model yields neither), and failures of the file system during a save.   *)
(* Messages reach the source between runs and during a rate-limit pause;   *)
(* one that arrives while the iterator walks is not seen by it and is as   *)
(* one arriving after.                                                     *)
(***************************************************************************)
EXTENDS Integers, Sequences, FiniteSets, TLC

\* ------------------------------------------------------------------ bounds
\* Most messages the chat's source ever holds.
MaxMsgs == 3
\* Last absolute instant of the modelled time range 0..MaxTime.
MaxTime == 3
\* Largest configured LIMIT.
MaxLimit == 2
\* Most records of an archive, and of one incoming list, under SpecSave.
MaxArchive == 3
MaxIncoming == 2

\* ------------------------------------------------------- program constants
\* `limit = limit or 5000`
DefaultLimit == 5000
\* None, for a date (last_date = None) and for a limit (limit=None).
NoDate == -1
NoLimit == 0
\* A falsy message.sender / a null sender_id.
NoSender == 0
\* Europe/Moscow: the UTC offset in force today, the instant of the 2014
\* transition and the width of the repeated span of local time, in the
\* model's time unit.
MskOffset == 6
FoldAt == 1
FoldWidth == 2

Instants == 0..MaxTime

\* No partially saved run is being followed.
NoPartial == [saved |-> FALSE, boundary |-> NoDate, held |-> 0]

VARIABLES
    source,         \* the chat's messages, oldest first (iter_messages yields them from the end)
    exists,         \* os.path.exists(file_path) of the chat's archive
    corrupt,        \* the archive file is not valid JSON
    archive,        \* the archive's decoded array of records
    pc,             \* where the pipeline stands
    mode,           \* config MODE of the current run
    cfg_limit,      \* config LIMIT of the current run
    limit,          \* parse_messages' local `limit`
    last_date,      \* parse_messages' local `last_date`
    today_start,    \* parse_messages' local `today_start`
    pos,            \* the iterator: source[pos] is the next message it yields
    messages_data,  \* parse_messages' accumulator, and afterwards its return value
    message_count,  \* parse_messages' local `message_count`
    failed,         \* the fetch ended in the `except Exception` of the retrieval
    append,         \* the `append` argument of the last save_messages call
    discarded,      \* history: a FloodWaitError of this run threw accumulated records away
    partial,        \* history: a last_saved run ended by a retrieval failure saved part
                    \* of what was new; the boundary and the source size it started from
    processed_chats,\* process_chat_file's local `processed_chats`
    updated_files,  \* process_chat_file's local `updated_files`
    chat_links,     \* the references read from the category file
    link_no,        \* how many of them the `for chat_link in chat_links` loop has taken
    outcome,        \* what client.get_entity did for the reference taken last
    chat,           \* the chat it returned
    file_path,      \* the archive path of that chat
    files,          \* the category's archives, by path, as they were when the loop
                    \* last stood at its head; the one at file_path is in
                    \* exists/corrupt/archive while its chat is handled
    writers,        \* history: the chats whose records were saved at each path
    sleeps,         \* history: the pacing sleeps of the batch
    tree,           \* merge_json_files: the .json files under input_dir, in os.walk order
    snapshots,      \* the files of output_dir, by name
    now,            \* datetime.now(): the day and the minute of the day
    merge_pc,       \* where merge_json_files stands
    file_no,        \* how many files of the walk it has read
    all_entries,    \* its local `all_entries`
    runs,           \* history: the merges that have written their output
    lines,          \* get_first_message_date: the lines of the file it reads
    first_pc,       \* where get_first_message_date stands
    line_no,        \* how many lines f.readline() has returned
    first_date,     \* what it returned
    request_count,  \* MessageParser.request_count
    pauses,         \* history: the 3-second pauses of check_request_limit
    retrieved,      \* history: the messages iter_messages has yielded
    floods          \* history: the FloodWaitErrors raised so far

vars == <<source, exists, corrupt, archive, pc, mode, cfg_limit, limit, last_date,
          today_start, pos, messages_data, message_count, failed, append,
          discarded, partial, processed_chats, updated_files, chat_links, link_no,
          outcome, chat, file_path, files, writers, sleeps, tree, snapshots, now,
          merge_pc, file_no, all_entries, runs, lines, first_pc, line_no, first_date,
          request_count, pauses, retrieved, floods>>

countVars == <<processed_chats, updated_files>>
batchVars == <<chat_links, link_no, outcome, chat, file_path, files, writers, sleeps>>
mergeVars == <<tree, snapshots, now, merge_pc, file_no, all_entries, runs>>
firstVars == <<lines, first_pc, line_no, first_date>>
throttleVars == <<request_count, pauses, retrieved>>
\* What lies outside the fetch, the save and the loop over the chats.
otherVars == <<mergeVars, firstVars, throttleVars, floods>>

\* ------------------------------------------------------ time conversions
\* dt.astimezone(MOSCOW_TZ).strftime(...): the civil time of an instant.
\* Before the transition the offset is FoldWidth larger.
format_moscow_time(t) ==
    IF t < FoldAt THEN t + MskOffset + FoldWidth ELSE t + MskOffset

parse_earlier_instant(d) ==
    IF d >= FoldAt + MskOffset + FoldWidth THEN d - MskOffset ELSE d - MskOffset - FoldWidth

\* MOSCOW_TZ.localize(strptime(...)): pytz's localize with is_dst=False
\* resolves a civil time that occurred twice to the later instant.
parse_moscow_time(d) ==
    IF d >= FoldAt + MskOffset THEN d - MskOffset ELSE d - MskOffset - FoldWidth

\* ---------------------------------------------------------------- sorting
\* list.sort(key=lambda x: parse_moscow_time(x['date'])): a stable sort.
RECURSIVE InsertByDate(_, _)
InsertByDate(r, s) ==
    IF s = <<>> THEN <<r>>
    ELSE IF parse_moscow_time(r.date) < parse_moscow_time(Head(s).date)
         THEN <<r>> \o s
         ELSE <<Head(s)>> \o InsertByDate(r, Tail(s))

RECURSIVE SortFrom(_, _)
SortFrom(s, n) ==
    IF n = 0 THEN <<>>
    ELSE InsertByDate(s[n], SortFrom(s, n - 1))

SortUnchanged(s) == s

SortByDate(s) == SortFrom(s, Len(s))

\* The chronological order the archive is kept in.
IsSorted(s) ==
    \A i \in 1..Len(s) : \A j \in i..Len(s) :
        parse_moscow_time(s[i].date) <= parse_moscow_time(s[j].date)

\* Occurrences of record r in s.
Count(r, s) == Cardinality({i \in 1..Len(s) : s[i] = r})

\* ------------------------------------------------------------ the archive
\* get_last_message_date: the parsed date of messages[-1]; None when the file
\* is missing, not valid JSON, or an empty array.
get_last_message_date(ex, cor, arr) ==
    IF ~ex \/ cor \/ arr = <<>> THEN NoDate
    ELSE parse_moscow_time(arr[Len(arr)].date)

save_messages_overwriting(messages, ex, cor, arr, app) ==
    IF messages # <<>> THEN SortByDate(messages) ELSE messages

\* save_messages: the array the file holds afterwards.
save_messages(messages, ex, cor, arr, app) ==
    LET sorted == IF messages # <<>> THEN SortByDate(messages) ELSE messages
        existing_messages == IF cor THEN <<>> ELSE arr
    IN  IF app /\ ex THEN SortByDate(existing_messages \o sorted) ELSE sorted

\* ------------------------------------------------------- archive paths
\* A title is a sequence of characters.  chat_title.replace(' ', '_')
ReplaceSpaces(name) == [i \in 1..Len(name) |-> IF name[i] = " " THEN "_" ELSE name[i]]

\* The characters of the class [\\/*?:"<>|] of sanitize_filename.
InvalidChars == {"\\", "/", "*", "?", ":", "\"", "<", ">", "|"}
Whitespace == {" ", "\t", "\n"}

\* name.strip()
RECURSIVE StripRight(_)
StripRight(name) ==
    IF name # <<>> /\ name[Len(name)] \in Whitespace
    THEN StripRight(SubSeq(name, 1, Len(name) - 1)) ELSE name

RECURSIVE StripLeft(_)
StripLeft(name) ==
    IF name # <<>> /\ name[1] \in Whitespace THEN StripLeft(Tail(name)) ELSE name

\* name.rstrip('.')
RECURSIVE RStripDots(_)
RStripDots(name) ==
    IF name # <<>> /\ name[Len(name)] = "."
    THEN RStripDots(SubSeq(name, 1, Len(name) - 1)) ELSE name

sanitize_filename(name) ==
    LET subbed == [i \in 1..Len(name) |-> IF name[i] \in InvalidChars THEN "_" ELSE name[i]]
    IN  RStripDots(StripLeft(StripRight(subbed)))

\* The path inside the category's directory: the sanitized title is the
\* file's name.  The category is the same for every chat of one batch.
get_chat_file_path(chat_title) == sanitize_filename(ReplaceSpaces(chat_title))

\* The path process_chat_file saves to: it sanitizes the title before it
\* hands it to get_chat_file_path.
SavePath(title) == get_chat_file_path(sanitize_filename(ReplaceSpaces(title)))

\* Titles the chats of a batch may bear, and the chats themselves.
TitlePool == {<<"a", " ", "b">>, <<"a", "/", "b">>, <<"b", ".">>, <<"b">>}
ChatIds == {1, 2}
Paths == {SavePath(t) : t \in TitlePool}

NoChat == [id |-> 0, title |-> <<>>]
NoPath == <<>>
AbsentFile == [exists |-> FALSE, archive |-> <<>>]

\* process_chat_file has not started.
BatchIdle ==
    /\ processed_chats = 0
    /\ updated_files = 0
    /\ chat_links = <<>>
    /\ link_no = 0
    /\ outcome = "none"
    /\ chat = NoChat
    /\ file_path = NoPath
    /\ files = [p \in Paths |-> AbsentFile]
    /\ writers = [p \in Paths |-> {}]
    /\ sleeps = 0

\* ---------------------------------------------------------- the merge job
\* Last day and last minute of a day of the modelled clock.
MaxDay == 1
MaxMinute == 1

\* No -HH-MM suffix in a snapshot's name.
NoStamp == -1

\* merged-<date>.json and merged-<date>-<HH-MM>.json
SnapshotNames == {[day |-> d, stamp |-> st] : d \in 0..MaxDay, st \in {NoStamp} \cup 0..MaxMinute}
NoSnapshot == [exists |-> FALSE, entries |-> <<>>]

\* merge_json_files is not running and has never run.
MergeIdle ==
    /\ tree = <<>>
    /\ snapshots = [n \in SnapshotNames |-> NoSnapshot]
    /\ now = [day |-> 0, minute |-> 0]
    /\ merge_pc = "idle"
    /\ file_no = 0
    /\ all_entries = <<>>
    /\ runs = 0

\* get_first_message_date has not been called.
FirstIdle ==
    /\ lines = <<>>
    /\ first_pc = "idle"
    /\ line_no = 0
    /\ first_date = NoDate

\* A MessageParser as __init__ leaves it, and no rate-limit signal yet.
ThrottleIdle ==
    /\ request_count = 0
    /\ pauses = 0
    /\ retrieved = 0

OthersIdle ==
    /\ MergeIdle
    /\ FirstIdle
    /\ ThrottleIdle
    /\ floods = 0

\* ------------------------------------------------- save_messages on its own
\* Records a caller may hand to save_messages.
RecordPool ==
    {[date |-> format_moscow_time(t), sender_id |-> 1, text |-> 1, id |-> i] :
        t \in Instants, i \in 1..2}

SeqsUpTo(S, n) == UNION {[1..k -> S] : k \in 0..n}

InitSave ==
    /\ source = <<>>
    /\ exists \in BOOLEAN
    /\ corrupt \in BOOLEAN
    /\ corrupt => exists
    /\ archive \in {s \in SeqsUpTo(RecordPool, 1) : IsSorted(s)}
    /\ (~exists \/ corrupt) => archive = <<>>
    /\ pc = "drawn"
    /\ mode = "all"
    /\ cfg_limit = NoLimit
    /\ limit = NoLimit
    /\ last_date = NoDate
    /\ today_start = 0
    /\ pos = 0
    /\ messages_data \in SeqsUpTo(RecordPool, MaxIncoming)
    /\ message_count = 0
    /\ failed = FALSE
    /\ append = FALSE
    /\ discarded = FALSE
    /\ partial = NoPartial
    /\ BatchIdle
    /\ OthersIdle

fetchVars == <<source, mode, cfg_limit, limit, last_date, today_start, pos,
               message_count, failed, discarded, partial>>

\* A caller draws the next list of records, in any order.
DrawRecords ==
    /\ pc = "saved"
    /\ pc' = "drawn"
    /\ messages_data' \in SeqsUpTo(RecordPool, MaxIncoming)
    /\ UNCHANGED <<exists, corrupt, archive, append>>
    /\ UNCHANGED fetchVars

\* save_messages(messages_data, file_path, app)
SaveDrawn ==
    /\ pc = "drawn"
    /\ \E app \in BOOLEAN :
        /\ (app /\ exists /\ ~corrupt) => Len(archive) + Len(messages_data) <= MaxArchive
        /\ append' = app
        /\ archive' = save_messages(messages_data, exists, corrupt, archive, app)
    /\ exists' = TRUE
    /\ corrupt' = FALSE
    /\ pc' = "saved"
    /\ UNCHANGED messages_data
    /\ UNCHANGED fetchVars

NextSave ==
    \/ DrawRecords /\ UNCHANGED <<countVars, batchVars, otherVars>>
    \/ SaveDrawn /\ UNCHANGED <<countVars, batchVars, otherVars>>

SpecSave == InitSave /\ [][NextSave]_vars

\* C1: after any sequence of saves (append or overwrite, incoming records in
\* any order, from an absent or a sorted archive) the stored array is in
\* non-decreasing timestamp order, oldest first.
C1_ArchiveSorted == (exists /\ ~corrupt) => IsSorted(archive)

\* An append of unsorted records onto a stored archive has happened.
C1_Witness ==
    /\ pc = "saved"
    /\ append
    /\ ~IsSorted(messages_data)
    /\ Len(archive) > Len(messages_data)

\* C6: an append-save onto an existing valid archive keeps every stored
\* record and adds every incoming one (count = old + incoming), sorted,
\* whatever the order of the incoming records.
C6_AppendKeepsAll ==
    [][(SaveDrawn /\ append' /\ exists /\ ~corrupt) =>
        /\ Len(archive') = Len(archive) + Len(messages_data)
        /\ \A r \in RecordPool :
              Count(r, archive') = Count(r, archive) + Count(r, messages_data)
        /\ IsSorted(archive')]_vars

\* An append of unsorted records onto a non-empty archive has happened.
C6_Witness ==
    /\ pc = "saved"
    /\ append
    /\ ~IsSorted(messages_data)
    /\ Len(archive) = MaxArchive
    /\ Len(messages_data) < MaxArchive

\* ------------------------------------------------------------ the pipeline
Modes == {"last_saved", "today", "all", "count"}

\* Configured LIMIT values: None or a positive number.
Limits == {NoLimit} \cup 1..MaxLimit

\* What a message of the source carries: a sender or none, a text or none.
MessageKinds ==
    {[sender |-> 1, text |-> 1], [sender |-> NoSender, text |-> 0]}

\* The record parse_messages builds from message i of the source (`id` is not
\* stored: it names the source message the record came from).
Record(m, i) ==
    [date |-> format_moscow_time(m.t), sender_id |-> m.sender, text |-> m.text, id |-> i]

\* `if not message.sender: continue`
HasSender(m) == m.sender # NoSender

\* `if message_data["text"] or message_data["sender_id"]`
KeepRecord(r) == r.text # 0 \/ r.sender_id # NoSender

AccumulateUnfiltered(acc, m, i) == <<Record(m, i)>> \o acc

AccumulateAtEnd(acc, m, i) ==
    IF HasSender(m) /\ KeepRecord(Record(m, i)) THEN Append(acc, Record(m, i)) ELSE acc

\* The accumulator after message i: messages_data.insert(0, message_data) for
\* a message that has a sender and passes the noise filter.
Accumulate(acc, m, i) ==
    IF ~HasSender(m) THEN acc
    ELSE IF KeepRecord(Record(m, i)) THEN <<Record(m, i)>> \o acc
    ELSE acc

StopsBelowBoundary(md, m, ld, ts) ==
    IF md = "today"
    THEN m.t < ts \/ (ld # NoDate /\ m.t < ld)
    ELSE ld # NoDate /\ m.t < ld

\* The stop conditions evaluated on a message before anything is kept.
StopsAt(md, m, ld, ts) ==
    IF md = "today"
    THEN m.t < ts \/ (ld # NoDate /\ m.t <= ld)
    ELSE ld # NoDate /\ m.t <= ld

BudgetReachedEarly(count, lim) == lim # NoLimit /\ count + 1 >= lim

\* `if limit is not None and message_count >= limit`
BudgetReached(count, lim) == lim # NoLimit /\ count >= lim

RestartKeepsAccumulator(acc) == acc

\* The accumulator of the recursive call made after a FloodWaitError.
RestartAccumulator(acc) == <<>>

LimitNeverMissing(md, lim) == FALSE

\* `if not limit: raise ValueError(...)` of the count mode.
LimitMissing(md, lim) == md = "count" /\ lim = NoLimit

ReturnsNothingOnFailure(acc) == <<>>

\* `except Exception` of the retrieval logs, and `return messages_data`
\* hands back what the accumulator holds.
ReturnedOnFailure(acc) == acc

\* `processed_chats += 1` once parse_messages has returned.
CountProcessed(n) == n + 1

FetchAbandoned == "abandoned"

\* `return await self.parse_messages(...)` after the sleep of the
\* FloodWaitError clause: the call starts again from the mode determination.
AfterFloodWait == "determine"

\* Nothing is being fetched.
FetchIdle ==
    /\ source = <<>>
    /\ exists = FALSE
    /\ corrupt = FALSE
    /\ archive = <<>>
    /\ pc = "idle"
    /\ mode = "last_saved"
    /\ cfg_limit = NoLimit
    /\ limit = NoLimit
    /\ last_date = NoDate
    /\ today_start = 0
    /\ pos = 0
    /\ messages_data = <<>>
    /\ message_count = 0
    /\ failed = FALSE
    /\ append = FALSE
    /\ discarded = FALSE
    /\ partial = NoPartial

Init ==
    /\ FetchIdle
    /\ BatchIdle
    /\ OthersIdle

fileVars == <<exists, corrupt, archive, append>>

\* A message is posted to the chat: not older than the ones it already holds.
NewMessage ==
    /\ pc \in {"idle", "determine"}
    /\ Len(source) < MaxMsgs
    /\ \E t \in Instants, k \in MessageKinds :
        /\ source # <<>> => t >= source[Len(source)].t
        /\ source' = Append(source, [t |-> t, sender |-> k.sender, text |-> k.text])
    /\ UNCHANGED <<pc, mode, cfg_limit, limit, last_date, today_start, pos,
                   messages_data, message_count, failed, discarded, partial>>
    /\ UNCHANGED fileVars
    /\ UNCHANGED countVars

\* process_chat_file reaches the chat with the configured MODE and LIMIT and
\* calls parse_messages.
StartRun ==
    /\ pc = "idle"
    /\ \E md \in Modes, lim \in Limits :
        /\ mode' = md
        /\ cfg_limit' = lim
        /\ limit' = lim
        /\ partial' = IF md = "last_saved" /\ lim = NoLimit THEN partial ELSE NoPartial
    /\ pc' = "determine"
    /\ UNCHANGED <<source, last_date, today_start, pos, messages_data,
                   message_count, failed, discarded>>
    /\ UNCHANGED fileVars
    /\ UNCHANGED countVars

\* parse_messages up to the start of the iteration: the boundary and the
\* budget of the mode; ValueError in count mode without a limit, which
\* process_chat_file catches.
DetermineMode ==
    /\ pc = "determine"
    /\ LET gl == get_last_message_date(exists, corrupt, archive) IN
        \/ /\ mode = "last_saved"
           /\ last_date' = gl
           /\ limit' = IF gl = NoDate /\ limit = NoLimit THEN DefaultLimit ELSE limit
           /\ today_start' = today_start
           /\ pc' = "paginate"
        \/ /\ mode = "today"
           /\ \E ts \in Instants :
                /\ today_start' = ts
                /\ last_date' = IF gl # NoDate /\ gl >= ts THEN gl ELSE ts
           /\ limit' = limit
           /\ pc' = "paginate"
        \/ /\ mode = "all"
           /\ last_date' = NoDate
           /\ UNCHANGED <<limit, today_start>>
           /\ pc' = "paginate"
        \/ /\ mode = "count"
           /\ ~LimitMissing(mode, limit)
           /\ last_date' = gl
           /\ UNCHANGED <<limit, today_start>>
           /\ pc' = "paginate"
        \/ /\ LimitMissing(mode, limit)
           /\ UNCHANGED <<limit, today_start, last_date>>
           /\ pc' = "idle"
    /\ messages_data' = <<>>
    /\ message_count' = 0
    /\ pos' = IF pc' = "paginate" THEN Len(source) ELSE 0
    /\ failed' = FALSE
    /\ UNCHANGED <<source, mode, cfg_limit, discarded, partial>>
    /\ UNCHANGED fileVars
    /\ UNCHANGED countVars

\* One turn of `async for message in client.iter_messages(...)`.
Step ==
    /\ pc = "paginate"
    /\ pos > 0
    /\ LET m == source[pos] IN
        /\ pos' = pos - 1
        /\ IF StopsAt(mode, m, last_date, today_start)
           THEN /\ pc' = "done"
                /\ UNCHANGED <<messages_data, message_count>>
           ELSE /\ messages_data' = Accumulate(messages_data, m, pos)
                /\ message_count' = IF HasSender(m) THEN message_count + 1 ELSE message_count
                /\ pc' = IF HasSender(m) /\ BudgetReached(message_count', limit)
                         THEN "done" ELSE "paginate"
    /\ UNCHANGED <<source, mode, cfg_limit, limit, last_date, today_start, failed,
                   discarded, partial>>
    /\ UNCHANGED fileVars
    /\ UNCHANGED countVars

\* The iterator is exhausted.
Exhaust ==
    /\ pc = "paginate"
    /\ pos = 0
    /\ pc' = "done"
    /\ UNCHANGED <<source, mode, cfg_limit, limit, last_date, today_start, pos,
                   messages_data, message_count, failed, discarded, partial>>
    /\ UNCHANGED fileVars
    /\ UNCHANGED countVars

\* The retrieval raises FloodWaitError: sleep, then parse_messages again with
\* the same arguments; the value returned is the recursive call's.
FloodWait ==
    /\ pc = "paginate"
    /\ pc' = AfterFloodWait
    /\ messages_data' = RestartAccumulator(messages_data)
    /\ message_count' = 0
    /\ pos' = 0
    /\ last_date' = NoDate
    /\ today_start' = 0
    /\ discarded' = (discarded \/ messages_data # <<>>)
    /\ UNCHANGED <<source, mode, cfg_limit, limit, failed, partial>>
    /\ UNCHANGED fileVars
    /\ UNCHANGED countVars

\* The retrieval raises another exception: logged, and what was accumulated
\* is returned.
RetrievalFails ==
    /\ pc = "paginate"
    /\ pc' = "done"
    /\ failed' = TRUE
    /\ partial' = IF mode = "last_saved" /\ cfg_limit = NoLimit /\ messages_data # <<>>
                      /\ ~partial.saved
                   THEN [saved |-> TRUE, boundary |-> last_date, held |-> Len(source)]
                   ELSE partial
    /\ messages_data' = ReturnedOnFailure(messages_data)
    /\ UNCHANGED <<source, mode, cfg_limit, limit, last_date, today_start, pos,
                   message_count, discarded>>
    /\ UNCHANGED fileVars
    /\ UNCHANGED countVars

\* process_chat_file with the returned list: save it if it is not empty.
SaveFetched ==
    /\ pc = "done"
    /\ IF messages_data # <<>>
       THEN LET app == mode \in {"last_saved", "today", "count"} /\ exists IN
            /\ append' = app
            /\ archive' = save_messages(messages_data, exists, corrupt, archive, app)
            /\ exists' = TRUE
            /\ corrupt' = FALSE
            /\ updated_files' = updated_files + 1
       ELSE UNCHANGED <<fileVars, updated_files>>
    /\ processed_chats' = CountProcessed(processed_chats)
    /\ pc' = "pacing"
    /\ UNCHANGED <<source, mode, cfg_limit, limit, last_date, today_start, pos,
                   messages_data, message_count, failed, discarded, partial>>

\* asyncio.sleep(10), the last reference of the file has been handled and
\* the locals of the finished calls are gone.
Pace ==
    /\ pc = "pacing"
    /\ pc' = "idle"
    /\ mode' = "last_saved"
    /\ cfg_limit' = NoLimit
    /\ limit' = NoLimit
    /\ last_date' = NoDate
    /\ today_start' = 0
    /\ pos' = 0
    /\ messages_data' = <<>>
    /\ message_count' = 0
    /\ failed' = FALSE
    /\ discarded' = FALSE
    /\ append' = FALSE
    /\ partial' = IF failed THEN partial ELSE NoPartial
    /\ processed_chats' = 0
    /\ updated_files' = 0
    /\ UNCHANGED <<source, exists, corrupt, archive>>

Next ==
    \/ NewMessage /\ UNCHANGED <<batchVars, otherVars>>
    \/ StartRun /\ UNCHANGED <<batchVars, otherVars>>
    \/ DetermineMode /\ UNCHANGED <<batchVars, otherVars>>
    \/ Step /\ UNCHANGED <<batchVars, otherVars>>
    \/ Exhaust /\ UNCHANGED <<batchVars, otherVars>>
    \/ FloodWait /\ UNCHANGED <<batchVars, otherVars>>
    \/ RetrievalFails /\ UNCHANGED <<batchVars, otherVars>>
    \/ SaveFetched /\ UNCHANGED <<batchVars, otherVars>>
    \/ Pace /\ UNCHANGED <<batchVars, otherVars>>

Spec == Init /\ [][Next]_vars

\* ------------------------------------------------------- a batch of chats
\* process_chat_file over the references of one category file, with the
\* MODE and LIMIT of the configuration.
\* Most references of the file.
MaxLinks == 2

\* What the chats of a batch hold when they are reached.
StreamPool ==
    {<<>>,
     <<[t |-> 1, sender |-> 1, text |-> 1]>>,
     <<[t |-> 0, sender |-> 1, text |-> 1], [t |-> 1, sender |-> NoSender, text |-> 0],
       [t |-> 2, sender |-> 1, text |-> 1]>>}

BatchAborts == "aborted"

\* The `except` clauses of the loop body only log: the loop goes on.
AfterFailure == "idle"

\* `await asyncio.sleep(10)`
PacingSleep(n) == n + 1

InitBatch ==
    /\ source = <<>>
    /\ exists = FALSE
    /\ corrupt = FALSE
    /\ archive = <<>>
    /\ pc = "idle"
    /\ mode \in Modes
    /\ cfg_limit \in Limits
    /\ limit = cfg_limit
    /\ last_date = NoDate
    /\ today_start = 0
    /\ pos = 0
    /\ messages_data = <<>>
    /\ message_count = 0
    /\ failed = FALSE
    /\ append = FALSE
    /\ discarded = FALSE
    /\ partial = NoPartial
    /\ processed_chats = 0
    /\ updated_files = 0
    /\ chat_links \in {[i \in 1..n |-> i] : n \in 0..MaxLinks}
    /\ link_no = 0
    /\ outcome = "none"
    /\ chat = NoChat
    /\ file_path = NoPath
    /\ files = [p \in Paths |-> AbsentFile]
    /\ writers = [p \in Paths |-> {}]
    /\ sleeps = 0
    /\ OthersIdle

\* The archive at path p, as the file system holds it now.
FileAt(p) ==
    IF p = file_path /\ pc \in {"determine", "paginate", "done", "pacing"}
    THEN [exists |-> exists, archive |-> archive]
    ELSE files[p]

\* client.get_entity raises ChannelPrivateError or another exception (or the
\* entity has no title): the reference is logged and left.
ResolveFails ==
    /\ pc = "idle"
    /\ link_no < Len(chat_links)
    /\ link_no' = link_no + 1
    /\ outcome' \in {"private", "error"}
    /\ pc' = AfterFailure
    /\ chat' = NoChat
    /\ file_path' = NoPath
    /\ UNCHANGED <<source, mode, cfg_limit, limit, last_date, today_start, pos,
                   messages_data, message_count, failed, discarded, partial>>
    /\ UNCHANGED fileVars
    /\ UNCHANGED countVars
    /\ UNCHANGED <<chat_links, files, writers, sleeps>>

\* client.get_entity returns a chat, and parse_messages is called for it.
ResolveChat ==
    /\ pc = "idle"
    /\ link_no < Len(chat_links)
    /\ link_no' = link_no + 1
    /\ outcome' = "ok"
    /\ \E id \in ChatIds, title \in TitlePool, stream \in StreamPool :
        /\ chat' = [id |-> id, title |-> title]
        /\ file_path' = SavePath(title)
        /\ source' = stream
    /\ exists' = files[file_path'].exists
    /\ archive' = files[file_path'].archive
    /\ corrupt' = FALSE
    /\ limit' = cfg_limit
    /\ pc' = "determine"
    /\ UNCHANGED <<mode, cfg_limit, last_date, today_start, pos, messages_data,
                   message_count, failed, append, discarded, partial>>
    /\ UNCHANGED countVars
    /\ UNCHANGED <<chat_links, files, writers, sleeps>>

\* The save of process_chat_file, with the chat noted as a writer of the path.
BatchSave ==
    /\ SaveFetched
    /\ writers' = IF messages_data # <<>>
                  THEN [writers EXCEPT ![file_path] = @ \cup {chat.id}]
                  ELSE writers
    /\ UNCHANGED <<chat_links, link_no, outcome, chat, file_path, files, sleeps>>

\* asyncio.sleep(10), and the loop is back at its head.
BatchPace ==
    /\ pc = "pacing"
    /\ pc' = "idle"
    /\ sleeps' = PacingSleep(sleeps)
    /\ files' = [files EXCEPT ![file_path] = [exists |-> exists, archive |-> archive]]
    /\ source' = <<>>
    /\ exists' = FALSE
    /\ corrupt' = FALSE
    /\ archive' = <<>>
    /\ limit' = cfg_limit
    /\ last_date' = NoDate
    /\ today_start' = 0
    /\ pos' = 0
    /\ messages_data' = <<>>
    /\ message_count' = 0
    /\ failed' = FALSE
    /\ append' = FALSE
    /\ discarded' = FALSE
    /\ partial' = NoPartial
    /\ chat' = NoChat
    /\ file_path' = NoPath
    /\ UNCHANGED <<mode, cfg_limit, chat_links, link_no, outcome, writers>>
    /\ UNCHANGED countVars

NextBatch ==
    \/ ResolveFails /\ UNCHANGED otherVars
    \/ ResolveChat /\ UNCHANGED otherVars
    \/ DetermineMode /\ UNCHANGED <<batchVars, otherVars>>
    \/ Step /\ UNCHANGED <<batchVars, otherVars>>
    \/ Exhaust /\ UNCHANGED <<batchVars, otherVars>>
    \/ FloodWait /\ UNCHANGED <<batchVars, otherVars>>
    \/ RetrievalFails /\ UNCHANGED <<batchVars, otherVars>>
    \/ BatchSave /\ UNCHANGED otherVars
    \/ BatchPace /\ UNCHANGED otherVars

SpecBatch == InitBatch /\ [][NextBatch]_vars

\* -------------------------------------------------- merge_json_files runs
\* Most .json files under the archive root, and most runs of the merge.
MaxFiles == 2
MaxRuns == 3

\* The decoded arrays a file may hold; the merge does not look into an entry.
ArrayPool == {<<>>, <<1>>, <<2, 1>>, <<1, 1>>}

\* A file holds a JSON array, some other JSON value, or no valid JSON.
FilePool ==
    {[kind |-> "array", entries |-> a] : a \in ArrayPool}
        \cup {[kind |-> "object", entries |-> <<>>], [kind |-> "malformed", entries |-> <<>>]}

ExtendWithoutDuplicates(entries, file) ==
    IF file.kind = "array"
    THEN entries \o SelectSeq(file.entries,
                              LAMBDA e : \A i \in 1..Len(entries) : entries[i] # e)
    ELSE entries

\* json.load, `if isinstance(data, list): all_entries.extend(data)`, and the
\* except clause that logs a file that does not decode.
ExtendEntries(entries, file) ==
    IF file.kind = "array" THEN entries \o file.entries ELSE entries

\* merged-<date>.json, or merged-<date>-<HH-MM>.json when that one exists.
OutputName(snaps, clock) ==
    LET base == [day |-> clock.day, stamp |-> NoStamp]
    IN  IF snaps[base].exists THEN [day |-> clock.day, stamp |-> clock.minute] ELSE base

InitMerge ==
    /\ FetchIdle
    /\ BatchIdle
    /\ FirstIdle
    /\ ThrottleIdle
    /\ floods = 0
    /\ tree \in SeqsUpTo(FilePool, MaxFiles)
    /\ snapshots = [n \in SnapshotNames |-> NoSnapshot]
    /\ now = [day |-> 0, minute |-> 0]
    /\ merge_pc = "idle"
    /\ file_no = 0
    /\ all_entries = <<>>
    /\ runs = 0

notMergeVars == <<source, exists, corrupt, archive, pc, mode, cfg_limit, limit, last_date,
                  today_start, pos, messages_data, message_count, failed, append,
                  discarded, partial, countVars, batchVars, firstVars, throttleVars,
                  floods>>

\* Time passes: the next minute of the day, or some minute of the next day.
Tick ==
    /\ \/ /\ now.minute < MaxMinute
          /\ now' = [now EXCEPT !.minute = @ + 1]
       \/ /\ now.day < MaxDay
          /\ \E m \in 0..MaxMinute : now' = [day |-> now.day + 1, minute |-> m]
    /\ UNCHANGED <<tree, snapshots, merge_pc, file_no, all_entries, runs>>
    /\ UNCHANGED notMergeVars

\* main calls merge_json_files.
MergeStart ==
    /\ merge_pc = "idle"
    /\ runs < MaxRuns
    /\ merge_pc' = "walk"
    /\ all_entries' = <<>>
    /\ file_no' = 0
    /\ UNCHANGED <<tree, snapshots, now, runs>>
    /\ UNCHANGED notMergeVars

\* One file of the walk.
MergeRead ==
    /\ merge_pc = "walk"
    /\ file_no < Len(tree)
    /\ all_entries' = ExtendEntries(all_entries, tree[file_no + 1])
    /\ file_no' = file_no + 1
    /\ UNCHANGED <<tree, snapshots, now, merge_pc, runs>>
    /\ UNCHANGED notMergeVars

\* The walk is over: the output's name is chosen and the file is written.
MergeWrite ==
    /\ merge_pc = "walk"
    /\ file_no = Len(tree)
    /\ snapshots' = [snapshots EXCEPT ![OutputName(snapshots, now)] =
                        [exists |-> TRUE, entries |-> all_entries]]
    /\ runs' = runs + 1
    /\ merge_pc' = "idle"
    /\ all_entries' = <<>>
    /\ file_no' = 0
    /\ UNCHANGED <<tree, now>>
    /\ UNCHANGED notMergeVars

NextMerge ==
    \/ Tick
    \/ MergeStart
    \/ MergeRead
    \/ MergeWrite

SpecMerge == InitMerge /\ [][NextMerge]_vars

\* -------------------------------------------- get_first_message_date runs
\* A line of a file: its leading spaces, what follows them, and the date of
\* the record when the line carries one.
Line(indent, token, date) == [indent |-> indent, token |-> token, date |-> date]

\* f.readline() at the end of the file: ''
EofLine == Line(0, "", NoDate)

\* json.dump(..., indent=2) of one record of an array: the braces on lines
\* of their own, indented by 2, and one line for each of the four keys.
DumpRecord(r, last) ==
    <<Line(2, "{", NoDate), Line(4, "key", r.date), Line(4, "key", NoDate),
      Line(4, "key", NoDate), Line(4, "key", NoDate),
      Line(2, IF last THEN "}" ELSE "},", NoDate)>>

RECURSIVE DumpRecords(_, _)
DumpRecords(arr, k) ==
    IF k = 0 THEN <<>>
    ELSE DumpRecords(arr, k - 1) \o DumpRecord(arr[k], k = Len(arr))

\* json.dump(messages, f, ensure_ascii=False, indent=2)
JsonDump(arr) ==
    IF arr = <<>> THEN <<Line(0, "[]", NoDate)>>
    ELSE <<Line(0, "[", NoDate)>> \o DumpRecords(arr, Len(arr)) \o <<Line(0, "]", NoDate)>>

\* line.startswith(c)
StartsWith(line, c) ==
    /\ line.indent = 0
    /\ \/ c = "[" /\ line.token \in {"[", "[]"}
       \/ c = "{" /\ line.token \in {"{", "object"}

\* json.loads(line.rstrip().rstrip(',')) gives a dict with a 'date': the
\* line is a whole record.
DecodesToRecord(line) == line.token = "object"

InitFirst ==
    /\ source = <<>>
    /\ exists \in BOOLEAN
    /\ corrupt = FALSE
    /\ \E m \in SeqsUpTo(RecordPool, MaxIncoming) :
          archive = IF exists THEN save_messages(m, FALSE, FALSE, <<>>, FALSE) ELSE <<>>
    /\ pc = "idle"
    /\ mode = "last_saved"
    /\ cfg_limit = NoLimit
    /\ limit = NoLimit
    /\ last_date = NoDate
    /\ today_start = 0
    /\ pos = 0
    /\ messages_data = <<>>
    /\ message_count = 0
    /\ failed = FALSE
    /\ append = FALSE
    /\ discarded = FALSE
    /\ partial = NoPartial
    /\ BatchIdle
    /\ MergeIdle
    /\ FirstIdle
    /\ ThrottleIdle
    /\ floods = 0

notFirstVars == <<source, exists, corrupt, archive, pc, mode, cfg_limit, limit, last_date,
                  today_start, pos, messages_data, message_count, failed, append,
                  discarded, partial, countVars, batchVars, mergeVars, throttleVars,
                  floods>>

\* get_first_message_date(file_path) up to the open: None for a missing file.
FirstCall ==
    /\ first_pc = "idle"
    /\ IF exists
       THEN /\ lines' = JsonDump(archive)
            /\ first_pc' = "open"
       ELSE /\ lines' = <<>>
            /\ first_pc' = "returned"
    /\ first_date' = NoDate
    /\ line_no' = 0
    /\ UNCHANGED notFirstVars

\* first_line = f.readline(); the scan starts if it begins with '['.
FirstOpen ==
    /\ first_pc = "open"
    /\ line_no' = 1
    /\ first_pc' = IF StartsWith(lines[1], "[") THEN "read" ELSE "returned"
    /\ UNCHANGED <<lines, first_date>>
    /\ UNCHANGED notFirstVars

\* `while True: line = f.readline()`; at the end of the file the position
\* stays one past the last line.
FirstReadLine ==
    /\ first_pc = "read"
    /\ line_no' = IF line_no <= Len(lines) THEN line_no + 1 ELSE line_no
    /\ first_pc' = "test"
    /\ UNCHANGED <<lines, first_date>>
    /\ UNCHANGED notFirstVars

\* `if line.startswith('{')`: the date of a line that decodes is returned;
\* every other line sends the loop to the next readline.
FirstTestLine ==
    /\ first_pc = "test"
    /\ LET line == IF line_no <= Len(lines) THEN lines[line_no] ELSE EofLine IN
        IF StartsWith(line, "{") /\ DecodesToRecord(line)
        THEN /\ first_date' = parse_moscow_time(line.date)
             /\ first_pc' = "returned"
        ELSE /\ first_date' = first_date
             /\ first_pc' = "read"
    /\ UNCHANGED <<lines, line_no>>
    /\ UNCHANGED notFirstVars

NextFirst ==
    \/ FirstCall
    \/ FirstOpen
    \/ FirstReadLine
    \/ FirstTestLine

\* The function runs on: nothing suspends it between two of its statements.
SpecFirst == InitFirst /\ [][NextFirst]_vars /\ WF_vars(NextFirst)

\* ------------------------------------------------------ the soft throttle
\* One MessageParser serves every category file and every chat of a run of
\* get_messages_from_chats.  Here each category file holds one reference,
\* to a chat without an archive, and the configuration is MODE last_saved
\* without a LIMIT.
\* `self.request_limit = 5000`
request_limit == 5000

\* Most messages retrieved in one run of the program.
MaxRetrieved == 5002

\* What each chat holds: a message without a sender between two with one.
ThrottleStream ==
    <<[t |-> 0, sender |-> 1, text |-> 1], [t |-> 1, sender |-> NoSender, text |-> 0],
      [t |-> 2, sender |-> 1, text |-> 1]>>

ResetsAboveLimit(count) == IF count + 1 > request_limit THEN 0 ELSE count + 1

\* check_request_limit: request_count afterwards.
check_request_limit(count) == IF count + 1 >= request_limit THEN 0 ELSE count + 1

\* check_request_limit returns True: it has slept 3 seconds.
LimitReached(count) == count + 1 >= request_limit

\* process_chat_file for the next category file: its chat is reached.
NextChatFile ==
    /\ pc = "idle"
    /\ source' = ThrottleStream
    /\ exists' = FALSE
    /\ corrupt' = FALSE
    /\ archive' = <<>>
    /\ pc' = "determine"
    /\ UNCHANGED <<mode, cfg_limit, limit, last_date, today_start, pos, messages_data,
                   message_count, failed, append, discarded, partial>>
    /\ UNCHANGED countVars

\* One turn of the iteration: check_request_limit comes first, whatever
\* becomes of the message.
ThrottledStep ==
    /\ Step
    /\ retrieved < MaxRetrieved
    /\ retrieved' = retrieved + 1
    /\ request_count' = check_request_limit(request_count)
    /\ pauses' = IF LimitReached(request_count) THEN pauses + 1 ELSE pauses

notThrottleVars == <<batchVars, mergeVars, firstVars, floods>>

NextThrottle ==
    \/ NextChatFile /\ UNCHANGED <<throttleVars, notThrottleVars>>
    \/ DetermineMode /\ UNCHANGED <<throttleVars, notThrottleVars>>
    \/ ThrottledStep /\ UNCHANGED notThrottleVars
    \/ Exhaust /\ UNCHANGED <<throttleVars, notThrottleVars>>
    \/ FloodWait /\ UNCHANGED <<throttleVars, notThrottleVars>>
    \/ RetrievalFails /\ UNCHANGED <<throttleVars, notThrottleVars>>
    \/ SaveFetched /\ UNCHANGED <<throttleVars, notThrottleVars>>
    \/ Pace /\ UNCHANGED <<throttleVars, notThrottleVars>>

SpecThrottle == Init /\ [][NextThrottle]_vars

\* ------------------------------------------------- one fetch, to its end
\* parse_messages is called for a chat whose messages are all there, and the
\* source raises FloodWaitError a bounded number of times.
\* Most messages of the chat, and most rate-limit signals.
MaxLiveMsgs == 2
MaxFloods == 2

\* The chat's messages are older or newer than the one record of its
\* archive, when it has one; their times do not decrease.
LiveTimes == {0, 2}
LiveArchive == <<[date |-> format_moscow_time(1), sender_id |-> 1, text |-> 1, id |-> 0]>>

LiveSources ==
    {s \in SeqsUpTo([t : LiveTimes, sender : {1, NoSender}, text : {1}], MaxLiveMsgs) :
        \A i \in 1..Len(s) : \A j \in i..Len(s) : s[i].t <= s[j].t}

InitLive ==
    /\ source \in LiveSources
    /\ exists \in BOOLEAN
    /\ corrupt = FALSE
    /\ archive = IF exists THEN LiveArchive ELSE <<>>
    /\ pc = "determine"
    /\ mode \in Modes
    /\ cfg_limit \in Limits
    /\ limit = cfg_limit
    /\ last_date = NoDate
    /\ today_start = 0
    /\ pos = 0
    /\ messages_data = <<>>
    /\ message_count = 0
    /\ failed = FALSE
    /\ append = FALSE
    /\ discarded = FALSE
    /\ partial = NoPartial
    /\ BatchIdle
    /\ OthersIdle

notLiveVars == <<batchVars, mergeVars, firstVars, throttleVars>>

\* The source raises FloodWaitError once more.
FloodSignal ==
    /\ floods < MaxFloods
    /\ floods' = floods + 1
    /\ FloodWait
    /\ UNCHANGED notLiveVars

\* What parse_messages does next when nothing is raised.
LiveProgress ==
    /\ DetermineMode \/ Step \/ Exhaust
    /\ UNCHANGED <<notLiveVars, floods>>

NextLive ==
    \/ DetermineMode /\ UNCHANGED <<notLiveVars, floods>>
    \/ Step /\ UNCHANGED <<notLiveVars, floods>>
    \/ Exhaust /\ UNCHANGED <<notLiveVars, floods>>
    \/ FloodSignal
    \/ RetrievalFails /\ UNCHANGED <<notLiveVars, floods>>

\* The event loop resumes the coroutine after each sleep and each message.
SpecLive == InitLive /\ [][NextLive]_vars /\ WF_vars(LiveProgress)

\* ----------------------------------------------------------------- claims
\* The archive's last timestamp, as the next fetch reads it.
LastTimestamp == get_last_message_date(exists, corrupt, archive)

\* The records of the source messages whose numbers are in ids, oldest first.
RECURSIVE RecordsOf(_, _)
RecordsOf(ids, n) ==
    IF n = 0 THEN <<>>
    ELSE IF n \in ids THEN Append(RecordsOf(ids, n - 1), Record(source[n], n))
    ELSE RecordsOf(ids, n - 1)

SenderBearing == {i \in 1..Len(source) : HasSender(source[i])}

\* The fetch stopped on the message it read last, which is not newer than T.
StoppedAtBoundary(T) ==
    /\ pos < Len(source)
    /\ source[pos + 1].t <= T
    /\ \A j \in (pos + 2)..Len(source) : source[j].t > T

\* s holds the records of r, each as often, in some order.
SameRecords(s, r) ==
    /\ Len(s) = Len(r)
    /\ \A k \in 1..Len(r) : Count(r[k], s) = Count(r[k], r)

\* C2: with an archive whose last timestamp is T, a last_saved fetch holds
\* and returns no record whose timestamp is <= T.
C2_NothingOldReturned ==
    (pc \in {"paginate", "done"} /\ mode = "last_saved" /\ LastTimestamp # NoDate) =>
        \A k \in 1..Len(messages_data) :
            parse_moscow_time(messages_data[k].date) > LastTimestamp

\* A last_saved fetch returned new records after stopping at the boundary.
C2_Witness ==
    /\ pc = "done"
    /\ mode = "last_saved"
    /\ LastTimestamp # NoDate
    /\ ~failed
    /\ messages_data # <<>>
    /\ StoppedAtBoundary(LastTimestamp)

C3_Case ==
    /\ mode = "last_saved"
    /\ cfg_limit = NoLimit
    /\ LastTimestamp # NoDate
    /\ ~failed

\* C3: last_saved, no limit, archive ending at T: the fetch stops at the first
\* message not newer than T and returns exactly the sender-bearing messages
\* newer than T; the append-save leaves the previous records followed by
\* those messages in ascending timestamp order.
C3_ResumeAtBoundary ==
    /\ []((pc = "done" /\ C3_Case) =>
            /\ pos = 0 \/ StoppedAtBoundary(LastTimestamp)
            /\ messages_data =
                 RecordsOf({i \in SenderBearing : source[i].t > LastTimestamp}, Len(source)))
    /\ [][(SaveFetched /\ C3_Case) =>
            /\ Len(archive') = Len(archive) + Len(messages_data)
            /\ SubSeq(archive', 1, Len(archive)) = archive
            /\ SameRecords(SubSeq(archive', Len(archive) + 1, Len(archive')), messages_data)
            /\ IsSorted(archive')]_vars

\* Two new messages were appended behind an archived one, the fetch having
\* stopped at the boundary.
C3_Witness ==
    /\ pc = "pacing"
    /\ mode = "last_saved"
    /\ cfg_limit = NoLimit
    /\ last_date # NoDate
    /\ ~failed
    /\ append
    /\ Len(messages_data) >= 2
    /\ StoppedAtBoundary(last_date)
    /\ Len(archive) > Len(messages_data)

\* The newest k of the sender-bearing messages.
Newest(k) ==
    {i \in SenderBearing : Cardinality({j \in SenderBearing : j > i}) < k}

Budget == IF cfg_limit = NoLimit THEN DefaultLimit ELSE cfg_limit

C4_Case ==
    /\ mode = "last_saved"
    /\ ~exists
    /\ ~failed

\* C4: last_saved with no archive: the fetch returns the newest
\* min(n, budget) sender-bearing messages, oldest first (budget = the
\* configured limit, or 5000), and the saved archive holds exactly those.
C4_FirstFetch ==
    /\ []((pc = "done" /\ C4_Case) =>
            /\ messages_data = RecordsOf(Newest(Budget), Len(source))
            /\ \A k \in 1..Len(messages_data) : \A l \in k..Len(messages_data) :
                 source[messages_data[k].id].t <= source[messages_data[l].id].t)
    /\ [][(SaveFetched /\ C4_Case) =>
            /\ SameRecords(archive', messages_data)
            /\ exists' = (messages_data # <<>>)]_vars

\* A first fetch cut by the configured limit was saved as a new archive.
C4_Witness ==
    /\ pc = "pacing"
    /\ mode = "last_saved"
    /\ last_date = NoDate
    /\ ~failed
    /\ ~append
    /\ cfg_limit = 2
    /\ Len(archive) = 2
    /\ Cardinality(SenderBearing) = 3
    /\ archive[1].id = 2

\* C5: no archive, and no list on its way to one, holds a record with empty
\* text and a null sender id.
C5_NoNoiseRecord ==
    /\ \A k \in 1..Len(archive) :
         ~(archive[k].text = 0 /\ archive[k].sender_id = NoSender)
    /\ \A k \in 1..Len(messages_data) :
         ~(messages_data[k].text = 0 /\ messages_data[k].sender_id = NoSender)

\* A whole source holding a message without text and sender was fetched and saved.
C5_Witness ==
    /\ pc = "pacing"
    /\ mode = "all"
    /\ cfg_limit = NoLimit
    /\ ~failed
    /\ pos = 0
    /\ archive # <<>>
    /\ \E i \in 1..Len(source) : source[i].text = 0 /\ source[i].sender = NoSender

\* C7: after a last_saved run that a retrieval failure cut short and whose
\* part was saved, a later failure-free last_saved run leaves in the archive
\* every sender-bearing message the source held that is newer than the
\* boundary of the failed run (no limit configured in either run).
C7_NothingLostAfterFailure ==
    (pc = "pacing" /\ partial.saved /\ mode = "last_saved" /\ cfg_limit = NoLimit /\ ~failed) =>
        \A i \in 1..partial.held :
            (HasSender(source[i]) /\ source[i].t > partial.boundary) =>
                \E k \in 1..Len(archive) : archive[k].id = i

\* C8: no source message is stored twice in the chat's archive.
C8_NoDuplicates ==
    \A k \in 1..Len(archive) : \A l \in 1..Len(archive) :
        archive[k].id = archive[l].id => k = l

\* The part fetched before a retrieval failure was appended to an archive.
C8_Witness ==
    /\ pc = "pacing"
    /\ failed
    /\ append
    /\ mode \in {"last_saved", "today", "count"}
    /\ messages_data # <<>>
    /\ Len(archive) >= 2

C9_Case ==
    /\ pc = "done"
    /\ mode = "last_saved"
    /\ last_date # NoDate
    /\ ~failed

\* C9 as stated: with a boundary, a last_saved fetch ends only at the
\* boundary or at the end of the source, whatever limit is configured.
C9_NoBudgetWithBoundary ==
    C9_Case => (pos = 0 \/ source[pos + 1].t <= last_date)

\* C9 as the code has it: with a boundary the budget is the configured limit;
\* only without a configured limit is the fetch unlimited.
C9_BudgetIsConfiguredLimit ==
    C9_Case =>
        /\ limit = cfg_limit
        /\ \/ pos = 0
           \/ source[pos + 1].t <= last_date
           \/ cfg_limit # NoLimit /\ message_count = cfg_limit

\* The configured limit ended a fetch before the boundary was reached.
C9_Witness ==
    /\ C9_Case
    /\ cfg_limit # NoLimit
    /\ message_count = cfg_limit
    /\ pos > 0
    /\ source[pos + 1].t > last_date

\* The budget parse_messages derives from the configured limit.
EffectiveLimit ==
    IF mode = "last_saved" /\ LastTimestamp = NoDate /\ cfg_limit = NoLimit
    THEN DefaultLimit ELSE cfg_limit

\* The boundary parse_messages derives from the archive.
EffectiveBoundary ==
    CASE mode = "all" -> NoDate
      [] mode = "today" ->
            IF LastTimestamp # NoDate /\ LastTimestamp >= today_start
            THEN LastTimestamp ELSE today_start
      [] OTHER -> LastTimestamp

\* What one uninterrupted walk over the source returns, from message p down.
RECURSIVE Walk(_, _, _)
Walk(p, acc, count) ==
    IF p = 0 THEN acc
    ELSE IF StopsAt(mode, source[p], EffectiveBoundary, today_start) THEN acc
    ELSE IF ~HasSender(source[p]) THEN Walk(p - 1, acc, count)
    ELSE IF BudgetReached(count + 1, EffectiveLimit)
         THEN Accumulate(acc, source[p], p)
         ELSE Walk(p - 1, Accumulate(acc, source[p], p), count + 1)

\* C10: a rate-limit signal discards what was accumulated and restarts the
\* fetch with the same parameters; what the fetch returns is what a fresh
\* fetch returns, each message once.
C10_RestartFromScratch ==
    /\ []((pc = "done" /\ ~failed) =>
            /\ messages_data = Walk(Len(source), <<>>, 0)
            /\ \A k \in 1..Len(messages_data) : \A l \in 1..Len(messages_data) :
                 messages_data[k].id = messages_data[l].id => k = l)
    /\ [][FloodWait =>
            /\ messages_data' = <<>>
            /\ message_count' = 0
            /\ mode' = mode
            /\ cfg_limit' = cfg_limit]_vars

\* A fetch that lost accumulated records to a rate-limit signal returned records.
C10_Witness ==
    /\ pc = "done"
    /\ discarded
    /\ ~failed
    /\ Len(messages_data) >= 2

\* C11: a retrieval failure that is not a rate-limit signal ends the fetch
\* with exactly the records accumulated so far, oldest first; the
\* orchestrator saves them when there is at least one and counts the chat
\* as processed.
C11_PartialResultKept ==
    /\ (pc = "done" /\ failed) =>
          messages_data = RecordsOf({i \in SenderBearing : i > pos}, Len(source))
    /\ (pc = "pacing" /\ failed) =>
          /\ processed_chats = 1
          /\ messages_data # <<>> =>
                /\ updated_files = 1
                /\ exists
                /\ \A k \in 1..Len(messages_data) :
                     Count(messages_data[k], archive) >= Count(messages_data[k], messages_data)

\* A fetch that failed with messages still unread returned records, and they
\* were saved.
C11_Witness ==
    /\ pc = "pacing"
    /\ failed
    /\ pos > 0
    /\ messages_data # <<>>
    /\ updated_files = 1

\* C12: a reference whose resolution raises (private channel or anything
\* else) is left: the loop stands at its head for the next reference, the
\* processed-chat count is not incremented and no archive is changed.
C12_FailedResolutionSkipped ==
    [][(link_no' = link_no + 1 /\ outcome' \in {"private", "error"}) =>
          /\ pc' = "idle"
          /\ processed_chats' = processed_chats
          /\ updated_files' = updated_files
          /\ files' = files
          /\ UNCHANGED <<exists, corrupt, archive>>]_vars

\* The second reference is processed and saved after the first one failed
\* to resolve.
C12_Witness ==
    /\ link_no = 2
    /\ pc = "pacing"
    /\ sleeps = 0
    /\ processed_chats = 1
    /\ updated_files = 1

\* C13: count mode without a limit raises before any message is retrieved,
\* for that chat only: no message is iterated, no archive is written, the
\* chat is not counted as processed, and the loop takes the next reference.
C13_CountNeedsLimit ==
    (mode = "count" /\ cfg_limit = NoLimit) =>
        /\ pc \in {"idle", "determine"}
        /\ pos = 0
        /\ messages_data = <<>>
        /\ processed_chats = 0
        /\ updated_files = 0
        /\ \A p \in Paths : FileAt(p) = AbsentFile

\* The second chat of a batch in count mode without a limit has been
\* resolved after the first one was given up.
C13_Witness ==
    /\ mode = "count"
    /\ cfg_limit = NoLimit
    /\ link_no = 2
    /\ outcome = "ok"
    /\ pc = "idle"

\* C14: between the handling of any two consecutive references there is a
\* pacing sleep, whatever the outcome of the first: by the time the k-th
\* reference is taken, k - 1 sleeps have happened.
C14_SleepBetweenAnyTwo == link_no >= 2 => sleeps >= link_no - 1

\* C15: within one batch, two different chats of the category are never
\* written to the same archive path.
C15_OneWriterPerPath == \A p \in Paths : Cardinality(writers[p]) <= 1

\* The entries of the array files among the first k files of the walk, in
\* the order of the walk.
RECURSIVE ArraysOf(_)
ArraysOf(k) ==
    IF k = 0 THEN <<>>
    ELSE ArraysOf(k - 1) \o (IF tree[k].kind = "array" THEN tree[k].entries ELSE <<>>)

RECURSIVE LengthSum(_)
LengthSum(k) ==
    IF k = 0 THEN 0
    ELSE LengthSum(k - 1) + (IF tree[k].kind = "array" THEN Len(tree[k].entries) ELSE 0)

WrittenSnapshots == {n \in SnapshotNames : snapshots[n].exists}

\* C16: a merge's output is the concatenation, unsorted and with every
\* duplicate kept, of the entries of the files that hold a JSON array; its
\* length is the sum of their lengths; a file that does not decode adds
\* nothing and does not stop the merge.
C16_MergeConcatenates ==
    /\ \A n \in WrittenSnapshots :
          /\ snapshots[n].entries = ArraysOf(Len(tree))
          /\ Len(snapshots[n].entries) = LengthSum(Len(tree))
    /\ merge_pc = "walk" => all_entries = ArraysOf(file_no)

\* A merge over a file that does not decode and a file with a repeated
\* entry has written its output.
C16_Witness ==
    /\ Len(tree) = 2
    /\ tree[1].kind = "malformed"
    /\ tree[2].entries = <<1, 1>>
    /\ WrittenSnapshots # {}

\* C17: however many merges run and whenever they run, none overwrites an
\* earlier snapshot: there are as many snapshot files as merges that wrote
\* one.
C17_OneSnapshotPerRun == Cardinality(WrittenSnapshots) = runs

\* C18: on an archive written by save_messages, get_first_message_date
\* ends, and what it returns is the date of the archive's first record
\* (None for a missing or an empty archive), which is not later than
\* get_last_message_date's.
C18_FirstTimestampReturns ==
    /\ (first_pc = "open") ~> (first_pc = "returned")
    /\ [](first_pc = "returned" =>
            /\ first_date = IF exists /\ archive # <<>>
                            THEN parse_moscow_time(archive[1].date) ELSE NoDate
            /\ first_date <= LastTimestamp)

\* C19: the throttle counter goes up by one with every message retrieved,
\* skipped ones included, through rate-limit restarts and from chat to
\* chat; the pause comes exactly when it reaches request_limit and sets it
\* back to 0, so between retrievals it lies in 0..request_limit-1 and there
\* has been one pause for every request_limit messages retrieved.
C19_ThrottleCounts ==
    /\ request_count \in 0..(request_limit - 1)
    /\ request_count = retrieved % request_limit
    /\ pauses = retrieved \div request_limit

\* The pause is behind and the count has begun again, in a fetch restarted
\* by a rate-limit signal that is about to read a message without a sender.
C19_Witness ==
    /\ pauses = 1
    /\ request_count = 1
    /\ discarded
    /\ pc = "paginate"
    /\ pos > 0
    /\ ~HasSender(source[pos])

\* C20: with all of the chat's messages there and a bounded number of
\* rate-limit signals, a fetch that is iterating ends by returning a list;
\* each signal, the first as the last, restarts the fetch with the same
\* parameters.
C20_FetchEnds ==
    /\ (pc = "paginate") ~> (pc = "done")
    /\ [][floods' = floods + 1 =>
            /\ pc' = "determine"
            /\ mode' = mode
            /\ cfg_limit' = cfg_limit
            /\ source' = source]_vars

\* A fetch restarted by as many signals as the source raises has returned
\* records.
C20_Witness ==
    /\ pc = "done"
    /\ floods = MaxFloods
    /\ ~failed
    /\ Len(messages_data) = MaxLiveMsgs

\* The archive holds the record of every sender-bearing message among the
\* first k of the source, and nothing else: it is complete for the source
\* as it stood when it held k messages.
ArchiveHoldsFirst(k) ==
    /\ \A i \in SenderBearing : i <= k => \E j \in 1..Len(archive) : archive[j].id = i
    /\ \A j \in 1..Len(archive) : archive[j].id \in SenderBearing /\ archive[j].id <= k

\* No message of the source lies in the hour the Moscow clock went through
\* twice: each one's stored date reads back as its own instant.
DatesReadBack ==
    \A i \in 1..Len(source) :
        parse_moscow_time(format_moscow_time(source[i].t)) = source[i].t

\* C21: a last_saved run without a limit and without a failure, started on
\* an archive that was complete for the source as it stood at some earlier
\* time, leaves an archive that holds every sender-bearing message of the
\* source, those that came later with the archive's last timestamp included
\* (stated for sources whose dates read back exactly).
C21_ResumeIsComplete ==
    [][(/\ SaveFetched
        /\ mode = "last_saved"
        /\ cfg_limit = NoLimit
        /\ ~failed
        /\ DatesReadBack
        /\ \E k \in 0..Len(source) : ArchiveHoldsFirst(k)) =>
            \A i \in SenderBearing : \E j \in 1..Len(archive') : archive'[j].id = i]_vars

====
